---- MODULE Spec2Model ----
(***************************************************************************)
(* LocalKVStorage (src/local-kv.ts): a Map<string, {value, expiry?}> kept  *)
(* in memory and mirrored to one JSON file.  The model keeps the Map as    *)
(* the insertion-ordered sequence of its entries, the file as the JSON     *)
(* text's structure, and the clock (Date.now()) in milliseconds.           *)
(*                                                                         *)
(* The Node.js server that owns the store: the calls a caller has issued   *)
(* on the store without awaiting them, and the request the Hono app is     *)
(* handling, with its context and the handlers that have run for it.       *)
(***************************************************************************)
EXTENDS Integers, Sequences, FiniteSets, TLC

VARIABLES data, disk, now, lastOp, ret, hist, lastSaved, dirty, failures,
          calls, req, ctx, cur, ran

vars ==
    <<data, disk, now, lastOp, ret, hist, lastSaved, dirty, failures, calls, req, ctx, cur, ran>>

\* the store, the calls in flight, the request in hand
kvVars == <<data, disk, now, lastOp, ret, hist, lastSaved, dirty, failures>>
callVars == <<calls>>
httpVars == <<req, ctx, cur, ran>>

-----------------------------------------------------------------------------
(* Bounds of the model *)

\* Date.now() when the model starts, in ms
Now0 == 10000
\* the clock advances at most this many times
MaxTicks == 2
\* writeFileSync throws at most this many times
MaxFailures == 2

\* `expirationTtl * 1000` of put
MsPerSec == 1000
\* one advance of the clock: one second
TickMs == MsPerSec
MaxNow == Now0 + MaxTicks * TickMs

\* strings are sequences of characters
KeyA == <<"a">>
KeyAB == <<"a", "b">>
\* String({prefix: p}), what startsWith makes of an options object
ObjectObject == <<"[", "o", "b", "j", "e", "c", "t", " ", "O", "b", "j", "e", "c", "t", "]">>
Keys == {KeyA, KeyAB}
Prefixes == {<<>>, KeyA, KeyAB, <<"b">>}
\* a string value is the sequence of its code points
V1 == <<118, 49>>   \* "v1"
V2 == <<118, 50>>   \* "v2"
\* the value argument of put: a string or an ArrayBuffer
StringValue(s) == [kind |-> "string", str |-> s]
ArrayBufferValue(b) == [kind |-> "arrayBuffer", bytes |-> b]
Values == {StringValue(V1), StringValue(V2)}
\* the value callers put where the store is followed through failing writes
NewValues == {StringValue(V2)}
\* expirationTtl in seconds
Ttls == {-1, 0, 1}

\* an optional value: <<>> is undefined, <<x>> is x
Undefined == <<>>
Some(x) == <<x>>

-----------------------------------------------------------------------------
(* JavaScript helpers *)

\* ToBoolean of an optional number
Truthy(opt) == opt # Undefined /\ opt[1] # 0

\* a slip: String.prototype.includes in place of startsWith
StartsWithAnywhere(s, p) ==
    \E n \in 0..Len(s) : n + Len(p) <= Len(s) /\ SubSeq(s, n + 1, n + Len(p)) = p

\* String.prototype.startsWith
StartsWith(s, p) == Len(p) <= Len(s) /\ SubSeq(s, 1, Len(p)) = p

\* Map.prototype.has / get / set / delete on the sequence of entries
MapHas(m, k) == \E i \in 1..Len(m) : m[i].key = k
MapGet(m, k) == m[CHOOSE i \in 1..Len(m) : m[i].key = k].item
\* a slip: the new item is merged into the old one, whose expiry stays when
\* the new item has none
MapSetMerges(m, k, item) ==
    IF \E i \in 1..Len(m) : m[i].key = k
    THEN [i \in 1..Len(m) |->
            IF m[i].key = k
            THEN [key |-> k,
                  item |-> [value |-> item.value,
                            expiry |-> IF item.expiry = <<>> THEN m[i].item.expiry
                                       ELSE item.expiry]]
            ELSE m[i]]
    ELSE Append(m, [key |-> k, item |-> item])

MapSet(m, k, item) ==
    IF MapHas(m, k)
    THEN [i \in 1..Len(m) |-> IF m[i].key = k THEN [key |-> k, item |-> item] ELSE m[i]]
    ELSE Append(m, [key |-> k, item |-> item])
\* a slip: Map.prototype.clear in place of delete
MapDeleteAll(m, k) == <<>>
MapDelete(m, k) == SelectSeq(m, LAMBDA e : e.key # k)
MapKeys(m) == [i \in 1..Len(m) |-> m[i].key]

\* a slip: only the value is written, the expiry is lost
JsonItemValueOnly(item) == [value |-> item.value]

\* JSON.stringify of one item: a property whose value is undefined is left out
JsonItem(item) ==
    IF item.expiry = Undefined
    THEN [value |-> item.value]
    ELSE [value |-> item.value, expiry |-> item.expiry[1]]

\* reading item.expiry of a parsed item: undefined when the property is absent
ItemOfJson(j) ==
    [value |-> j.value,
     expiry |-> IF "expiry" \in DOMAIN j THEN Some(j.expiry) ELSE Undefined]

\* the code point of a digit of a key, 0 for any other character
digitCode(c) ==
    CASE c = "0" -> 48 [] c = "1" -> 49 [] c = "2" -> 50 [] c = "3" -> 51 [] c = "4" -> 52
      [] c = "5" -> 53 [] c = "6" -> 54 [] c = "7" -> 55 [] c = "8" -> 56 [] c = "9" -> 57
      [] OTHER -> 0
digitCodes(k) == [i \in 1..Len(k) |-> digitCode(k[i])]

\* of two sequences of one length, the first comes first
lexLess(a, b) == \E i \in 1..Len(a) : a[i] < b[i] /\ \A j \in 1..(i - 1) : a[j] = b[j]

\* the largest array index, 2^32 - 2, by the code points of its digits
MaxArrayIndex == <<52, 50, 57, 52, 57, 54, 55, 50, 57, 52>>

\* the name (code points) is the canonical text of an array index: such
\* properties come first in an object, in ascending order
IsArrayIndex(d) ==
    /\ d # <<>>
    /\ \A i \in 1..Len(d) : d[i] \in 48..57
    /\ Len(d) > 1 => d[1] # 48
    /\ \/ Len(d) < Len(MaxArrayIndex)
       \/ Len(d) = Len(MaxArrayIndex) /\ (d = MaxArrayIndex \/ lexLess(d, MaxArrayIndex))
indexLess(a, b) == Len(a) < Len(b) \/ (Len(a) = Len(b) /\ lexLess(a, b))

\* the positions in set S of names, the smallest array index first
RECURSIVE sortIndices(_, _)
sortIndices(names, S) ==
    IF S = {} THEN <<>>
    ELSE LET least == CHOOSE i \in S : \A j \in S \ {i} : indexLess(names[i], names[j])
         IN  <<least>> \o sortIndices(names, S \ {least})

\* the order of the own properties of an object whose properties were created
\* in the order of names (one name each): the array indices ascending, then
\* the other names in the order of creation
ownKeysOrder(names) ==
    LET indices == {i \in 1..Len(names) : IsArrayIndex(names[i])}
    IN  sortIndices(names, indices)
        \o SelectSeq([i \in 1..Len(names) |-> i], LAMBDA i : i \notin indices)

\* Object.fromEntries(map), Object.entries(object): the entries in the order
\* of the object's properties
objectEntries(m) ==
    LET order == ownKeysOrder([i \in 1..Len(m) |-> digitCodes(m[i].key)])
    IN  [n \in 1..Len(m) |-> m[order[n]]]

\* JSON.stringify(Object.fromEntries(this.data), null, 2)
JsonStringify(m) ==
    LET object == objectEntries(m)
    IN  [kind |-> "object",
         entries |-> [i \in 1..Len(m) |->
                        [key |-> object[i].key, item |-> JsonItem(object[i].item)]]]

-----------------------------------------------------------------------------
(* JSON.parse of a string of code points *)

\* the result of a parsing step: the index after what was read, and its value
Ok(pos, val) == [ok |-> TRUE, pos |-> pos, val |-> val]
Fail == [ok |-> FALSE, pos |-> 0, val |-> <<>>]

\* the code point at index i, -1 past the end
At(s, i) == IF i \in 1..Len(s) THEN s[i] ELSE -1

\* the index of the first code point from i on that is no white space
\* (space, tab, line feed, carriage return)
RECURSIVE skipWs(_, _)
skipWs(s, i) == IF At(s, i) \in {32, 9, 10, 13} THEN skipWs(s, i + 1) ELSE i

\* the index after the run of digits that starts at i
RECURSIVE digitsEnd(_, _)
digitsEnd(s, i) == IF At(s, i) \in 48..57 THEN digitsEnd(s, i + 1) ELSE i

\* the number a run of digits denotes
RECURSIVE digitsValue(_)
digitsValue(d) ==
    IF d = <<>> THEN 0 ELSE 10 * digitsValue(SubSeq(d, 1, Len(d) - 1)) + (d[Len(d)] - 48)

\* true, false, null
parseLiteral(s, i, word, val) ==
    IF i + Len(word) - 1 <= Len(s) /\ SubSeq(s, i, i + Len(word) - 1) = word
    THEN Ok(i + Len(word), val)
    ELSE Fail

\* -? (0 | [1-9][0-9]*) (. [0-9]+)? ([eE] [+-]? [0-9]+)?   (0 stands for no match)
\* an integer is kept by its value, a number with a fraction or an exponent
\* by its text
parseNumber(s, i) ==
    LET i1 == IF At(s, i) = 45 THEN i + 1 ELSE i
        i2 == IF At(s, i1) = 48 THEN i1 + 1
              ELSE IF At(s, i1) \in 49..57 THEN digitsEnd(s, i1) ELSE 0
        i3 == IF i2 = 0 THEN 0
              ELSE IF At(s, i2) # 46 THEN i2
              ELSE IF digitsEnd(s, i2 + 1) > i2 + 1 THEN digitsEnd(s, i2 + 1) ELSE 0
        j  == IF At(s, i3 + 1) \in {43, 45} THEN i3 + 2 ELSE i3 + 1
        i4 == IF i3 = 0 THEN 0
              ELSE IF At(s, i3) \notin {101, 69} THEN i3
              ELSE IF digitsEnd(s, j) > j THEN digitsEnd(s, j) ELSE 0
    IN  IF i4 = 0 THEN Fail
        ELSE IF i4 = i2
        THEN Ok(i4, [type |-> "number",
                     value |-> (IF i1 = i THEN 1 ELSE -1) * digitsValue(SubSeq(s, i1, i2 - 1))])
        ELSE Ok(i4, [type |-> "number", text |-> SubSeq(s, i, i4 - 1)])

\* the value of a hexadecimal digit, -1 for any other code point
hexValue(c) ==
    CASE c \in 48..57 -> c - 48
      [] c \in 65..70 -> c - 55
      [] c \in 97..102 -> c - 87
      [] OTHER -> -1

\* a code unit or code point u is added to a string: a low surrogate that
\* follows a high surrogate makes one code point with it, as the two are one
\* character of the UTF-16 string
appendUnit(acc, u) ==
    IF /\ u \in 56320..57343
       /\ acc # <<>>
       /\ acc[Len(acc)] \in 55296..56319
    THEN [acc EXCEPT ![Len(acc)] = 65536 + (@ - 55296) * 1024 + (u - 56320)]
    ELSE Append(acc, u)

\* the characters of a string literal from index i (after the opening quote)
\* to the closing quote; an escape \uXXXX gives the code unit XXXX
RECURSIVE parseChars(_, _, _)
parseChars(s, i, acc) ==
    LET c == At(s, i)
        e == At(s, i + 1)
        h == [n \in 1..4 |-> hexValue(At(s, i + 1 + n))]
    IN  CASE c = 34 -> Ok(i + 1, acc)
          [] c \in 0..31 \/ c = -1 -> Fail
          [] c = 92 ->
                CASE e \in {34, 92, 47} -> parseChars(s, i + 2, Append(acc, e))
                  [] e = 98 -> parseChars(s, i + 2, Append(acc, 8))
                  [] e = 102 -> parseChars(s, i + 2, Append(acc, 12))
                  [] e = 110 -> parseChars(s, i + 2, Append(acc, 10))
                  [] e = 114 -> parseChars(s, i + 2, Append(acc, 13))
                  [] e = 116 -> parseChars(s, i + 2, Append(acc, 9))
                  [] e = 117 /\ \A n \in 1..4 : h[n] >= 0 ->
                        parseChars(s, i + 6,
                                   appendUnit(acc, ((h[1] * 16 + h[2]) * 16 + h[3]) * 16 + h[4]))
                  [] OTHER -> Fail
          [] OTHER -> parseChars(s, i + 1, appendUnit(acc, c))

\* an object keeps one member for each name, the last value at the first place
memberSet(members, name, val) ==
    IF \E n \in 1..Len(members) : members[n].name = name
    THEN [n \in 1..Len(members) |->
            IF members[n].name = name THEN [name |-> name, val |-> val] ELSE members[n]]
    ELSE Append(members, [name |-> name, val |-> val])

\* the members in the order of the object's properties
objectMembers(members) ==
    LET order == ownKeysOrder([n \in 1..Len(members) |-> members[n].name])
    IN  [n \in 1..Len(members) |-> members[order[n]]]

RECURSIVE parseValue(_, _), parseElements(_, _, _), parseMembers(_, _, _)

\* a value, after white space
parseValue(s, i) ==
    LET j == skipWs(s, i)
        c == At(s, j)
        k == skipWs(s, j + 1)
        str == parseChars(s, j + 1, <<>>)
    IN  CASE c = 123 ->
                IF At(s, k) = 125 THEN Ok(k + 1, [type |-> "object", members |-> <<>>])
                ELSE parseMembers(s, k, <<>>)
          [] c = 91 ->
                IF At(s, k) = 93 THEN Ok(k + 1, [type |-> "array", elements |-> <<>>])
                ELSE parseElements(s, k, <<>>)
          [] c = 34 ->
                IF str.ok THEN Ok(str.pos, [type |-> "string", str |-> str.val]) ELSE Fail
          [] c = 45 \/ c \in 48..57 -> parseNumber(s, j)
          [] c = 116 -> parseLiteral(s, j, <<116, 114, 117, 101>>,
                                     [type |-> "boolean", value |-> TRUE])
          [] c = 102 -> parseLiteral(s, j, <<102, 97, 108, 115, 101>>,
                                     [type |-> "boolean", value |-> FALSE])
          [] c = 110 -> parseLiteral(s, j, <<110, 117, 108, 108>>, [type |-> "null"])
          [] OTHER -> Fail

\* the elements of an array from the value at i on, to the closing bracket
parseElements(s, i, acc) ==
    LET r == parseValue(s, i)
        j == skipWs(s, r.pos)
    IN  IF ~r.ok THEN Fail
        ELSE CASE At(s, j) = 44 -> parseElements(s, j + 1, Append(acc, r.val))
               [] At(s, j) = 93 ->
                     Ok(j + 1, [type |-> "array", elements |-> Append(acc, r.val)])
               [] OTHER -> Fail

\* the members of an object from the name at i on, to the closing brace
parseMembers(s, i, acc) ==
    LET name == parseChars(s, i + 1, <<>>)
        j == skipWs(s, name.pos)
        v == parseValue(s, j + 1)
        m == skipWs(s, v.pos)
    IN  IF At(s, i) # 34 \/ ~name.ok \/ At(s, j) # 58 \/ ~v.ok THEN Fail
        ELSE CASE At(s, m) = 44 ->
                     parseMembers(s, skipWs(s, m + 1), memberSet(acc, name.val, v.val))
               [] At(s, m) = 125 ->
                     Ok(m + 1, [type |-> "object",
                                members |-> objectMembers(memberSet(acc, name.val, v.val))])
               [] OTHER -> Fail

\* JSON.parse(text): one value with white space around it, or a SyntaxError
JsonParse(s) ==
    LET r == parseValue(s, 1)
    IN  IF r.ok /\ skipWs(s, r.pos) > Len(s) THEN r ELSE Fail

-----------------------------------------------------------------------------
(* TextDecoder, TextEncoder *)

\* U+FFFD, which the decoder puts for bytes that are no UTF-8
ReplacementChar == 65533
\* U+FEFF, the byte order mark
ByteOrderMark == 65279

\* the UTF-8 decoder: bytes b from index i on, with the decoder's state
\* (bytes needed, bytes seen, code point, lower and upper boundary)
RECURSIVE utf8Decode(_, _, _, _, _, _, _)
utf8Decode(b, i, needed, seen, cp, lower, upper) ==
    IF i > Len(b)
    THEN IF needed # 0 THEN <<ReplacementChar>> ELSE <<>>
    ELSE LET byte == b[i] IN
         IF needed = 0
         THEN CASE byte <= 127 ->
                      <<byte>> \o utf8Decode(b, i + 1, 0, 0, 0, 128, 191)
                [] byte \in 194..223 ->
                      utf8Decode(b, i + 1, 1, 0, byte % 32, 128, 191)
                [] byte \in 224..239 ->
                      utf8Decode(b, i + 1, 2, 0, byte % 16,
                                 IF byte = 224 THEN 160 ELSE 128,
                                 IF byte = 237 THEN 159 ELSE 191)
                [] byte \in 240..244 ->
                      utf8Decode(b, i + 1, 3, 0, byte % 8,
                                 IF byte = 240 THEN 144 ELSE 128,
                                 IF byte = 244 THEN 143 ELSE 191)
                [] OTHER ->
                      <<ReplacementChar>> \o utf8Decode(b, i + 1, 0, 0, 0, 128, 191)
         ELSE IF byte \notin lower..upper
              \* the byte is read again as the first of a sequence
              THEN <<ReplacementChar>> \o utf8Decode(b, i, 0, 0, 0, 128, 191)
              ELSE LET c == cp * 64 + (byte % 64) IN
                   IF seen + 1 = needed
                   THEN <<c>> \o utf8Decode(b, i + 1, 0, 0, 0, 128, 191)
                   ELSE utf8Decode(b, i + 1, needed, seen + 1, c, 128, 191)

\* a slip: the bytes are taken for code points one by one (latin1)
TextDecodeBytewise(bytes) == bytes

\* new TextDecoder().decode(buffer): UTF-8, not fatal, a leading byte order
\* mark is dropped
TextDecode(bytes) ==
    LET s == utf8Decode(bytes, 1, 0, 0, 0, 128, 191)
    IN  IF Len(s) > 0 /\ s[1] = ByteOrderMark THEN Tail(s) ELSE s

\* the UTF-8 bytes of one code point; a lone surrogate is encoded as U+FFFD
utf8Bytes(cp) ==
    LET c == IF cp \in 55296..57343 THEN ReplacementChar ELSE cp IN
    CASE c < 128 -> <<c>>
      [] c \in 128..2047 -> <<192 + (c \div 64), 128 + (c % 64)>>
      [] c \in 2048..65535 ->
            <<224 + (c \div 4096), 128 + ((c \div 64) % 64), 128 + (c % 64)>>
      [] OTHER ->
            <<240 + (c \div 262144), 128 + ((c \div 4096) % 64),
              128 + ((c \div 64) % 64), 128 + (c % 64)>>

\* new TextEncoder().encode(string)
RECURSIVE TextEncode(_)
TextEncode(s) == IF s = <<>> THEN <<>> ELSE utf8Bytes(Head(s)) \o TextEncode(Tail(s))

-----------------------------------------------------------------------------
(* LocalKVStorage *)

\* a slip: a file that does not parse is salvaged instead of dropped
loadFromDiskLenient(f) ==
    CASE f.kind = "absent" -> <<>>
      [] f.kind = "corrupt" -> <<[key |-> <<"a">>, item |-> [value |-> <<118, 49>>, expiry |-> <<>>]]>>
      [] f.kind = "object" ->
            [i \in 1..Len(f.entries) |->
                [key |-> f.entries[i].key, item |-> ItemOfJson(f.entries[i].item)]]

\* loadFromDisk: the Map the constructor ends with, given the file; the
\* entries of the parsed object come in the order of its properties
loadFromDisk(f) ==
    CASE f.kind = "absent" -> <<>>
      [] f.kind = "corrupt" -> <<>>
      [] f.kind = "object" ->
            LET object == objectEntries(f.entries)
            IN  [i \in 1..Len(object) |->
                    [key |-> object[i].key, item |-> ItemOfJson(object[i].item)]]

\* what becomes of a writeFileSync: the file is written; the file cannot be
\* opened (no permission) and stays as it was; or the file is opened, which
\* truncates it, and the write stops before the end of the text (disk full,
\* quota), which leaves a beginning of the text: no JSON
WriteOutcomes == {"written", "refused", "cut"}

\* saveToDisk: the file after the call; a throw of writeFileSync is caught
saveToDisk(m, f, outcome) ==
    CASE outcome = "written" -> JsonStringify(m)
      [] outcome = "refused" -> f
      [] outcome = "cut" -> [kind |-> "corrupt"]

\* a slip: !(item.expiry >= now), which also drops the items without expiry
IsExpiredUnlessLater(item, t) == ~(item.expiry # <<>> /\ item.expiry[1] >= t)

\* the test of cleanupExpired: item.expiry && item.expiry < now
IsExpired(item, t) == Truthy(item.expiry) /\ item.expiry[1] < t

\* cleanupExpired: the Map after the scan, and hasExpired
cleanupExpired(m, t) ==
    LET kept == SelectSeq(m, LAMBDA e : ~IsExpired(e.item, t))
    IN  [data |-> kept, hasExpired |-> Len(kept) # Len(m)]

\* what a call hands to its caller: the values of the resolved promise, or
\* the SyntaxError of JSON.parse the promise of get is rejected with
Null == [kind |-> "null"]
Void == [kind |-> "void"]
Text(v) == [kind |-> "text", value |-> v]
Json(v) == [kind |-> "json", value |-> v]
Buffer(bytes) == [kind |-> "arrayBuffer", bytes |-> bytes]
Stream(chunks) == [kind |-> "stream", chunks |-> chunks]
SyntaxError == [kind |-> "throws", error |-> "SyntaxError"]

\* a slip: the parse error is caught and null returned
getReturnCatches(m, key, type) ==
    IF ~(\E i \in 1..Len(m) : m[i].key = key) THEN [kind |-> "null"]
    ELSE LET v == m[CHOOSE i \in 1..Len(m) : m[i].key = key].item.value IN
         CASE type = "json" ->
                  IF JsonParse(v).ok /\ JsonParse(v).val.type # "null"
                  THEN [kind |-> "json", value |-> JsonParse(v).val]
                  ELSE [kind |-> "null"]
           [] type = "arrayBuffer" -> [kind |-> "arrayBuffer", bytes |-> TextEncode(v)]
           [] type = "stream" -> [kind |-> "stream", chunks |-> <<TextEncode(v)>>]
           [] OTHER -> [kind |-> "text", value |-> v]

\* what get returns on Map m (already cleaned); the JSON text null parses to
\* null, the value returned for a key that is missing
getReturn(m, key, type) ==
    IF ~MapHas(m, key) THEN Null
    ELSE LET v == MapGet(m, key).value IN
         CASE type = "json" ->
                  IF ~JsonParse(v).ok THEN SyntaxError
                  ELSE IF JsonParse(v).val.type = "null" THEN Null
                  ELSE Json(JsonParse(v).val)
           [] type = "arrayBuffer" -> Buffer(TextEncode(v))
           [] type = "stream" -> Stream(<<TextEncode(v)>>)
           [] OTHER -> Text(v)

\* stringValue of put: an ArrayBuffer is decoded, a string taken as it is
stringValue(value) ==
    IF value.kind = "arrayBuffer" THEN TextDecode(value.bytes) ELSE value.str

\* options?.expirationTtl
optionsTtl(options) ==
    IF options.kind = "object" THEN options.expirationTtl ELSE Undefined

\* a slip: the TTL is added as milliseconds
putExpiryInMs(options, t) ==
    IF options.kind = "object" /\ options.expirationTtl # <<>> /\ options.expirationTtl[1] # 0
    THEN <<t + options.expirationTtl[1]>>
    ELSE <<>>

\* a slip: only a positive TTL counts
putExpiryIfPositive(options, t) ==
    IF options.kind = "object" /\ options.expirationTtl # <<>> /\ options.expirationTtl[1] > 0
    THEN <<t + options.expirationTtl[1] * 1000>>
    ELSE <<>>

\* the expiry put computes
putExpiry(options, t) ==
    IF Truthy(optionsTtl(options))
    THEN Some(t + optionsTtl(options)[1] * MsPerSec)
    ELSE Undefined

\* the filter of list: !prefix || key.startsWith(prefix)
\* String(prefix), as startsWith converts its argument
PrefixString(arg) ==
    CASE arg.kind = "string" -> arg.str
      [] arg.kind = "object" -> ObjectObject
      [] arg.kind = "undefined" -> <<"u", "n", "d", "e", "f", "i", "n", "e", "d">>
listFilter(arg, key) ==
    \/ arg.kind = "undefined"
    \/ (arg.kind = "string" /\ arg.str = <<>>)
    \/ StartsWith(key, PrefixString(arg))

listReturn(m, arg) ==
    [kind |-> "keys", keys |-> SelectSeq(MapKeys(m), LAMBDA k : listFilter(arg, k))]

-----------------------------------------------------------------------------
(* Inputs *)

GetTypes == {"undefined", "text"}
PutOptions ==
    {[kind |-> "undefined"], [kind |-> "object", expirationTtl |-> Undefined]}
    \cup {[kind |-> "object", expirationTtl |-> Some(t)] : t \in Ttls}
ListArgs ==
    {[kind |-> "undefined"]}
    \cup {[kind |-> "string", str |-> p] : p \in Prefixes}
    \cup {[kind |-> "object", prefix |-> Some(p)] : p \in {KeyA}}
    \cup {[kind |-> "object", prefix |-> Undefined]}

\* files a store may find at construction
InitFiles ==
    {[kind |-> "absent"], [kind |-> "corrupt"],
     JsonStringify(<<[key |-> KeyA, item |-> [value |-> V1, expiry |-> Undefined]],
                     [key |-> KeyAB, item |-> [value |-> V2, expiry |-> Some(Now0 - TickMs)]]>>),
     JsonStringify(<<[key |-> KeyAB, item |-> [value |-> V1, expiry |-> Some(Now0 + MsPerSec)]]>>)}

\* the observer watches one key and has seen no put or delete of it yet
NoHist(k) == [kind |-> "never", key |-> k]
\* nobody observes
Unobserved == [kind |-> "off", key |-> <<>>]

-----------------------------------------------------------------------------
(* Actions *)

\* no call is in flight; the server handles no request
NoCalls == calls = <<>>
NoRequest ==
    /\ req = [method |-> "none", path |-> <<>>]
    /\ ctx = [env |-> "none", headers |-> {}, status |-> 0, finalized |-> FALSE]
    /\ cur = 0
    /\ ran = <<>>

Init ==
    /\ disk \in InitFiles
    /\ data = loadFromDisk(disk)
    /\ now = Now0
    /\ lastOp = "construct"
    /\ ret = Void
    /\ hist = Unobserved
    /\ lastSaved = loadFromDisk(disk)
    /\ dirty = FALSE
    /\ failures = 0
    /\ NoCalls /\ NoRequest

\* the write of one operation: attempted says whether saveToDisk ran,
\* outcome what became of its writeFileSync, which may fail time after time
\* (the model counts the failures up to MaxFailures).  dirty says that the
\* latest write of this instance failed; lastSaved is the Map as it was at
\* the latest write that succeeded (or at the load)
Write(m, attempted, outcome) ==
    /\ ~attempted => outcome = "written"
    /\ outcome # "written" => failures < MaxFailures
    /\ failures' = IF outcome # "written" THEN failures + 1 ELSE failures
    /\ disk' = IF attempted THEN saveToDisk(m, disk, outcome) ELSE disk
    /\ lastSaved' = IF attempted /\ outcome = "written" THEN m ELSE lastSaved
    /\ dirty' = IF attempted THEN outcome # "written" ELSE dirty

\* the observer notes the latest put or delete of the key it watches
Follow(key, h) == hist' = IF hist.key = key THEN h ELSE hist

\* a slip: the Map is saved as it was before the scan
getSavesStale(key, type) ==
    \E outcome \in WriteOutcomes :
        LET c == cleanupExpired(data, now) IN
        /\ data' = c.data
        /\ Write(data, c.hasExpired, outcome)
        /\ ret' = getReturn(c.data, key, type)
        /\ lastOp' = "get"
        /\ UNCHANGED <<now, hist>>

get(key, type) ==
    \E outcome \in WriteOutcomes :
        LET c == cleanupExpired(data, now) IN
        /\ data' = c.data
        /\ Write(c.data, c.hasExpired, outcome)
        /\ ret' = getReturn(c.data, key, type)
        /\ lastOp' = "get"
        /\ UNCHANGED <<now, hist>>

\* a slip: a put whose write fails is rolled back
putRollsBack(key, value, options) ==
    \E outcome \in WriteOutcomes :
        LET m == MapSet(data, key, [value |-> stringValue(value),
                                    expiry |-> putExpiry(options, now)]) IN
        /\ data' = IF outcome = "written" THEN m ELSE data
        /\ Write(m, TRUE, outcome)
        /\ ret' = Void
        /\ lastOp' = "put"
        /\ Follow(key, [kind |-> "put", key |-> key, value |-> stringValue(value),
                         ttl |-> optionsTtl(options),
                         at |-> IF Truthy(optionsTtl(options)) THEN Some(now) ELSE Undefined])
        /\ UNCHANGED now

put(key, value, options) ==
    \E outcome \in WriteOutcomes :
        LET m == MapSet(data, key, [value |-> stringValue(value),
                                    expiry |-> putExpiry(options, now)]) IN
        /\ data' = m
        /\ Write(m, TRUE, outcome)
        /\ ret' = Void
        /\ lastOp' = "put"
        /\ Follow(key, [kind |-> "put", key |-> key, value |-> stringValue(value),
                         ttl |-> optionsTtl(options),
                         at |-> IF Truthy(optionsTtl(options)) THEN Some(now) ELSE Undefined])
        /\ UNCHANGED now

delete(key) ==
    \E outcome \in WriteOutcomes :
        LET m == MapDelete(data, key) IN
        /\ data' = m
        /\ Write(m, TRUE, outcome)
        /\ ret' = Void
        /\ lastOp' = "delete"
        /\ Follow(key, [kind |-> "deleted", key |-> key])
        /\ UNCHANGED now

list(arg) ==
    \E outcome \in WriteOutcomes :
        LET c == cleanupExpired(data, now) IN
        /\ data' = c.data
        /\ Write(c.data, c.hasExpired, outcome)
        /\ ret' = listReturn(c.data, arg)
        /\ lastOp' = "list"
        /\ UNCHANGED <<now, hist>>

\* Date.now() moves on between two operations
Tick ==
    /\ now + TickMs <= MaxNow
    /\ now' = now + TickMs
    /\ lastOp' = "tick"
    /\ ret' = Void
    /\ UNCHANGED <<data, disk, hist, lastSaved, dirty, failures>>

\* the process ends and a new LocalKVStorage is constructed on the same path
Restart ==
    /\ data' = loadFromDisk(disk)
    /\ lastOp' = "construct"
    /\ ret' = Void
    /\ dirty' = FALSE
    /\ lastSaved' = loadFromDisk(disk)
    /\ UNCHANGED <<disk, now, hist, failures>>

\* the store used by callers that await each call: one operation at a time
Next ==
    \/ \E k \in Keys, t \in GetTypes : get(k, t) /\ UNCHANGED <<callVars, httpVars>>
    \/ \E k \in Keys, v \in NewValues, o \in PutOptions :
            put(k, v, o) /\ UNCHANGED <<callVars, httpVars>>
    \/ \E k \in Keys : delete(k) /\ UNCHANGED <<callVars, httpVars>>
    \/ \E a \in ListArgs : list(a) /\ UNCHANGED <<callVars, httpVars>>
    \/ Tick /\ UNCHANGED <<callVars, httpVars>>
    \/ Restart /\ UNCHANGED <<callVars, httpVars>>

Spec == Init /\ [][Next]_vars

\* one LocalKVStorage instance from its construction on, with an observer
\* of one key
InitInstance ==
    /\ disk \in InitFiles
    /\ data = loadFromDisk(disk)
    /\ now = Now0
    /\ lastOp = "construct"
    /\ ret = Void
    /\ \E k \in Keys : hist = NoHist(k)
    /\ lastSaved = loadFromDisk(disk)
    /\ dirty = FALSE
    /\ failures = 0
    /\ NoCalls /\ NoRequest

NextInstance ==
    \/ \E k \in Keys, t \in GetTypes : get(k, t) /\ UNCHANGED <<callVars, httpVars>>
    \/ \E k \in Keys, v \in NewValues, o \in PutOptions :
            put(k, v, o) /\ UNCHANGED <<callVars, httpVars>>
    \/ \E k \in Keys : delete(k) /\ UNCHANGED <<callVars, httpVars>>
    \/ \E a \in ListArgs : list(a) /\ UNCHANGED <<callVars, httpVars>>
    \/ Tick /\ UNCHANGED <<callVars, httpVars>>

SpecInstance == InitInstance /\ [][NextInstance]_vars

\* one instance whose callers use every read format and store strings and
\* ArrayBuffers under one key
FormatKeys == {KeyA}
FormatTypes == {"undefined", "text", "json", "arrayBuffer", "stream"}
FormatStrings ==
    {V1,                        \* v1
     <<>>,                      \* the empty string
     <<49>>,                    \* 1
     <<110, 117, 108, 108>>,    \* null
     <<123, 34, 97, 34, 58, 49, 125>>}     \* {"a":1}
FormatBuffers ==
    {<<65>>,                    \* A
     <<91, 93>>,                \* []
     <<195, 169>>,              \* U+00E9 in UTF-8
     <<255>>,                   \* no UTF-8
     <<195>>,                   \* a sequence cut short
     <<239, 187, 191, 65>>}     \* a byte order mark, then A
FormatValues ==
    {StringValue(s) : s \in FormatStrings} \cup {ArrayBufferValue(b) : b \in FormatBuffers}
FormatOptions == {[kind |-> "undefined"], [kind |-> "object", expirationTtl |-> Some(1)]}

InitFormats ==
    /\ disk \in {[kind |-> "absent"],
                 JsonStringify(<<[key |-> KeyA,
                                  item |-> [value |-> V1, expiry |-> Some(Now0 + MsPerSec)]]>>)}
    /\ data = loadFromDisk(disk)
    /\ now = Now0
    /\ lastOp = "construct"
    /\ ret = Void
    /\ hist = Unobserved
    /\ lastSaved = loadFromDisk(disk)
    /\ dirty = FALSE
    /\ failures = 0
    /\ NoCalls /\ NoRequest

NextFormats ==
    \/ \E k \in FormatKeys, t \in FormatTypes :
            get(k, t) /\ UNCHANGED <<callVars, httpVars>>
    \/ \E k \in FormatKeys, v \in FormatValues, o \in FormatOptions :
            put(k, v, o) /\ UNCHANGED <<callVars, httpVars>>
    \/ \E k \in FormatKeys : delete(k) /\ UNCHANGED <<callVars, httpVars>>
    \/ Tick /\ UNCHANGED <<callVars, httpVars>>

SpecFormats == InitFormats /\ [][NextFormats]_vars

\* one instance whose callers put one key with every kind of TTL option, next
\* to the entries of the file it was constructed on
TtlKeys == {KeyA}

NextTtl ==
    \/ \E k \in Keys : get(k, "text") /\ UNCHANGED <<callVars, httpVars>>
    \/ \E k \in TtlKeys, v \in Values, o \in PutOptions :
            put(k, v, o) /\ UNCHANGED <<callVars, httpVars>>
    \/ \E k \in TtlKeys : delete(k) /\ UNCHANGED <<callVars, httpVars>>
    \/ list([kind |-> "undefined"]) /\ UNCHANGED <<callVars, httpVars>>
    \/ Tick /\ UNCHANGED <<callVars, httpVars>>

SpecTtl == Init /\ [][NextTtl]_vars

\* one instance constructed on a file that holds an entry whose expiry is 0,
\* the timestamp of 1 January 1970, and whose callers also put with the
\* negative TTL that brings Date.now() + ttl * 1000 down to the last full
\* second before the clock's start
EpochFiles ==
    {JsonStringify(<<[key |-> KeyA, item |-> [value |-> V1, expiry |-> Some(0)]],
                     [key |-> KeyAB, item |-> [value |-> V2, expiry |-> Some(Now0 - TickMs)]]>>),
     JsonStringify(<<[key |-> KeyAB, item |-> [value |-> V1, expiry |-> Some(Now0 + MsPerSec)]]>>)}

EpochOptions ==
    {[kind |-> "undefined"],
     [kind |-> "object", expirationTtl |-> Some(1)],
     [kind |-> "object", expirationTtl |-> Some(-(Now0 \div MsPerSec))]}

InitEpoch ==
    /\ disk \in EpochFiles
    /\ data = loadFromDisk(disk)
    /\ now = Now0
    /\ lastOp = "construct"
    /\ ret = Void
    /\ hist = Unobserved
    /\ lastSaved = loadFromDisk(disk)
    /\ dirty = FALSE
    /\ failures = 0
    /\ NoCalls /\ NoRequest

NextEpoch ==
    \/ \E k \in Keys : get(k, "text") /\ UNCHANGED <<callVars, httpVars>>
    \/ \E k \in Keys, v \in NewValues, o \in EpochOptions :
            put(k, v, o) /\ UNCHANGED <<callVars, httpVars>>
    \/ \E k \in Keys : delete(k) /\ UNCHANGED <<callVars, httpVars>>
    \/ list([kind |-> "undefined"]) /\ UNCHANGED <<callVars, httpVars>>
    \/ Tick /\ UNCHANGED <<callVars, httpVars>>
    \/ Restart /\ UNCHANGED <<callVars, httpVars>>

SpecEpoch == InitEpoch /\ [][NextEpoch]_vars

-----------------------------------------------------------------------------
(* Calls issued without awaiting: get, put, delete and list are async         *)
(* functions, whose body runs in the caller's turn up to its first await and  *)
(* then, piece by piece, in microtasks after the caller's turn                *)

\* a caller issues at most this many calls in one turn
MaxCalls == 3

\* the statements of each body, in order
Body(op) ==
    CASE op = "get" -> <<"cleanupExpired", "return">>
      [] op = "put" -> <<"set", "saveToDisk">>
      [] op = "delete" -> <<"delete", "saveToDisk">>
      [] op = "list" -> <<"cleanupExpired", "return">>

\* a slip: get awaits after its scan (as it would with an asynchronous write)
awaitsInAfterScan(op) == IF op = "get" THEN {1} ELSE {}

\* the statements of a body that are followed by an await: there is none, and
\* readFileSync and writeFileSync block
awaitsIn(op) == {}

\* the result of a call that has not returned
Pending == [kind |-> "pending"]

\* saveToDisk within a body; c.write says what becomes of a write of call c
writeCall(st, m, attempted, outcome) ==
    [st EXCEPT !.disk = IF attempted THEN saveToDisk(m, st.disk, outcome) ELSE @,
               !.lastSaved = IF attempted /\ outcome = "written" THEN m ELSE @,
               !.dirty = IF attempted THEN outcome # "written" ELSE @,
               !.failures = IF attempted /\ outcome # "written" THEN @ + 1 ELSE @]

\* one statement of the body of call c on the store st
exec(c, stmt, st) ==
    CASE stmt = "cleanupExpired" ->
            LET x == cleanupExpired(st.data, now)
            IN  writeCall([st EXCEPT !.data = x.data], x.data, x.hasExpired, c.write)
      [] stmt = "return" /\ c.op = "get" ->
            [st EXCEPT !.ret = getReturn(st.data, c.key, c.type)]
      [] stmt = "return" /\ c.op = "list" ->
            [st EXCEPT !.ret = listReturn(st.data, c.arg)]
      [] stmt = "set" ->
            [st EXCEPT !.data = MapSet(st.data, c.key,
                                       [value |-> stringValue(c.value),
                                        expiry |-> putExpiry(c.options, now)])]
      [] stmt = "delete" ->
            [st EXCEPT !.data = MapDelete(st.data, c.key)]
      [] stmt = "saveToDisk" ->
            [writeCall(st, st.data, TRUE, c.write) EXCEPT !.ret = Void]

\* the body of call c from statement n on, up to its end or its next await
RECURSIVE run(_, _, _)
run(c, n, st) ==
    LET st2 == exec(c, Body(c.op)[n], st) IN
    IF n = Len(Body(c.op)) \/ n \in awaitsIn(c.op)
    THEN [st |-> st2, pc |-> n]
    ELSE run(c, n + 1, st2)

\* the calls a caller may issue
CallShapes ==
    {[op |-> "get", key |-> k, type |-> "text", write |-> w] : k \in Keys, w \in WriteOutcomes}
    \cup {[op |-> "put", key |-> KeyA, value |-> StringValue(V2),
           options |-> [kind |-> "undefined"], write |-> w] : w \in WriteOutcomes}
    \cup {[op |-> "put", key |-> KeyAB, value |-> StringValue(V1),
           options |-> [kind |-> "object", expirationTtl |-> Some(1)], write |-> "written"]}
    \cup {[op |-> "delete", key |-> KeyA, write |-> "refused"]}
    \cup {[op |-> "list", arg |-> [kind |-> "undefined"], write |-> "written"]}

\* what a caller issues in one turn, for which writeFileSync throws at most
\* MaxFailures times
Batches ==
    {b \in UNION {[1..n -> {[call |-> c, pc |-> 0, result |-> Pending] : c \in CallShapes}] :
                     n \in 1..MaxCalls} :
        Cardinality({i \in 1..Len(b) : b[i].call.write # "written"}) <= MaxFailures}

Finished(x) == x.pc = Len(Body(x.call.op))

InitConcurrent ==
    /\ disk \in InitFiles
    /\ data = loadFromDisk(disk)
    /\ now = Now0
    /\ lastOp = "construct"
    /\ ret = Void
    /\ hist = Unobserved
    /\ lastSaved = loadFromDisk(disk)
    /\ dirty = FALSE
    /\ failures = 0
    /\ calls \in Batches
    /\ NoRequest

\* call i has run up to r: the store is as the body left it, and the call has
\* its result once the body has returned
Ran(i, x, r, done) ==
    /\ data' = r.st.data
    /\ disk' = r.st.disk
    /\ dirty' = r.st.dirty
    /\ lastSaved' = r.st.lastSaved
    /\ failures' = r.st.failures
    /\ ret' = IF done THEN r.st.ret ELSE ret
    /\ lastOp' = IF done THEN x.call.op ELSE lastOp
    /\ calls' = [calls EXCEPT ![i] = [call |-> x.call, pc |-> r.pc,
                                      result |-> IF done THEN r.st.ret ELSE Pending]]

\* the body of call x runs from where it stands
Resume(i, x, r) == Ran(i, x, r, r.pc = Len(Body(x.call.op)))

\* call i runs: invoked by the caller, in the order of the calls, or resumed
\* after its await once the caller's turn is over, the earliest first
Step(i) ==
    /\ ~Finished(calls[i])
    /\ \/ calls[i].pc = 0 /\ \A j \in 1..(i - 1) : calls[j].pc > 0
       \/ /\ calls[i].pc > 0
          /\ \A j \in 1..Len(calls) : calls[j].pc > 0
          /\ \A j \in 1..(i - 1) : Finished(calls[j])
    /\ Resume(i, calls[i],
              run(calls[i].call, calls[i].pc + 1,
                  [data |-> data, disk |-> disk, dirty |-> dirty,
                   lastSaved |-> lastSaved, failures |-> failures, ret |-> ret]))
    /\ UNCHANGED <<now, hist, httpVars>>

NextConcurrent == \E i \in 1..Len(calls) : Step(i)

SpecConcurrent == InitConcurrent /\ [][NextConcurrent]_vars

-----------------------------------------------------------------------------
(* The Hono app of the Node.js server: what app.use, app.route and app.get    *)
(* register, in the order of registration, and the run of one request         *)
(* through the handlers that match it.  A path is the sequence of its         *)
(* segments                                                                   *)

Methods == {"GET", "POST", "OPTIONS"}
Paths ==
    {<<>>, <<"health">>, <<"other">>, <<"v1", "models">>, <<"v1", "chat", "completions">>,
     <<"v1", "debug", "cache">>, <<"v1", "token-test">>, <<"v1", "unknown">>}

\* the headers the CORS middleware sets
CorsHeaders ==
    {<<"Access-Control-Allow-Origin", "*">>,
     <<"Access-Control-Allow-Methods", "GET, POST, OPTIONS">>,
     <<"Access-Control-Allow-Headers", "Content-Type, Authorization">>}

\* the routes of the two sub-applications, as the root endpoint lists them;
\* their handlers are taken to answer every method
OpenAIRoute ==
    <<[name |-> "chat_completions", methods |-> Methods, match |-> "path",
       path |-> <<"chat", "completions">>],
      [name |-> "models", methods |-> Methods, match |-> "path", path |-> <<"models">>]>>
DebugRoute ==
    <<[name |-> "cache", methods |-> Methods, match |-> "path", path |-> <<"cache">>],
      [name |-> "token_test", methods |-> Methods, match |-> "path", path |-> <<"token-test">>],
      [name |-> "full_test", methods |-> Methods, match |-> "path", path |-> <<"test">>]>>

\* app.route(prefix, sub): the routes of sub under the prefix
route(prefix, sub) == [i \in 1..Len(sub) |-> [sub[i] EXCEPT !.path = prefix \o @]]

\* app.use(pattern, handler); "all" is the pattern "*", "under" is "/v1/*"
use(name, match, path) ==
    <<[name |-> name, methods |-> Methods, match |-> match, path |-> path]>>

\* app.get(path, handler)
appGet(name, path) ==
    <<[name |-> name, methods |-> {"GET"}, match |-> "path", path |-> path]>>

\* what the app has registered, in the order of its registration
Handlers ==
    use("loggingMiddleware", "all", <<>>)
    \o use("cors", "all", <<>>)
    \o use("openAIApiKeyAuth", "under", <<"v1">>)
    \o route(<<"v1">>, OpenAIRoute)
    \o route(<<"v1", "debug">>, DebugRoute)
    \o route(<<"v1">>, DebugRoute)
    \o appGet("root", <<>>)
    \o appGet("health", <<"health">>)
    \o use("injectEnv", "all", <<>>)

\* the handler matches the request
Matches(h, r) ==
    /\ r.method \in h.methods
    /\ CASE h.match = "all" -> TRUE
         [] h.match = "under" ->
               Len(r.path) >= Len(h.path) /\ SubSeq(r.path, 1, Len(h.path)) = h.path
         [] h.match = "path" -> r.path = h.path

\* the handlers that run for a request, in the order of registration
Chain(r) == SelectSeq(Handlers, LAMBDA h : Matches(h, r))

RouteNames == {"chat_completions", "models", "cache", "token_test", "full_test"}

\* the handler whose turn it is
Current == Chain(req)[cur]
Running(names) ==
    /\ req.method # "none" /\ ~ctx.finalized
    /\ cur \in 1..Len(Chain(req)) /\ Current.name \in names

\* the handler is noted with what it finds in the context when it starts
Note == ran' = Append(ran, [name |-> Current.name, env |-> ctx.env,
                            cors |-> CorsHeaders \subseteq ctx.headers])

\* await next()
CallNext == cur' = cur + 1
\* return c.body(...) or c.json(...): the response is made of the status and
\* the headers of the context
Respond(status) ==
    /\ ctx' = [ctx EXCEPT !.status = status, !.finalized = TRUE]
    /\ UNCHANGED <<req, cur>>

\* serve hands a request to app.fetch; c.env is what the server binds, not
\* the environment of loadNodeEnv
Receive(method, path) ==
    /\ req.method = "none" \/ ctx.finalized
    /\ req' = [method |-> method, path |-> path]
    /\ ctx' = [env |-> "bindings", headers |-> {}, status |-> 200, finalized |-> FALSE]
    /\ cur' = 1
    /\ ran' = <<>>
    /\ UNCHANGED <<kvVars, callVars>>

\* the logging middleware passes the request on
loggingMiddleware ==
    /\ Running({"loggingMiddleware"})
    /\ Note /\ CallNext
    /\ UNCHANGED <<req, ctx, kvVars, callVars>>

\* a slip: the preflight request is passed on like any other
corsPassesPreflight ==
    /\ Running({"cors"})
    /\ Note
    /\ ctx' = [ctx EXCEPT !.headers = @ \cup CorsHeaders]
    /\ cur' = cur + 1
    /\ UNCHANGED <<req, kvVars, callVars>>

\* the CORS middleware
cors ==
    /\ Running({"cors"})
    /\ Note
    /\ IF req.method = "OPTIONS"
       THEN /\ ctx' = [ctx EXCEPT !.headers = @ \cup CorsHeaders,
                                  !.status = 204, !.finalized = TRUE]
            /\ UNCHANGED cur
       ELSE /\ ctx' = [ctx EXCEPT !.headers = @ \cup CorsHeaders]
            /\ CallNext
    /\ UNCHANGED <<req, kvVars, callVars>>

\* the authentication of /v1/*: it passes the request on or answers 401
openAIApiKeyAuth ==
    /\ Running({"openAIApiKeyAuth"})
    /\ Note
    /\ \/ CallNext /\ UNCHANGED <<req, ctx>>
       \/ Respond(401)
    /\ UNCHANGED <<kvVars, callVars>>

\* a handler of OpenAIRoute or DebugRoute answers
routeHandler ==
    /\ Running(RouteNames)
    /\ Note
    /\ \E status \in {200, 500} : Respond(status)
    /\ UNCHANGED <<kvVars, callVars>>

\* app.get("/") and app.get("/health") answer with c.json
rootOrHealth ==
    /\ Running({"root", "health"})
    /\ Note
    /\ Respond(200)
    /\ UNCHANGED <<kvVars, callVars>>

\* the middleware that injects the environment into the context
injectEnv ==
    /\ Running({"injectEnv"})
    /\ Note
    /\ ctx' = [ctx EXCEPT !.env = "loadNodeEnv"]
    /\ CallNext
    /\ UNCHANGED <<req, kvVars, callVars>>

\* no handler has answered: Hono answers 404
notFound ==
    /\ req.method # "none" /\ ~ctx.finalized
    /\ cur = Len(Chain(req)) + 1
    /\ Respond(404)
    /\ UNCHANGED <<ran, kvVars, callVars>>

\* the module is loaded: loadNodeEnv has constructed the store
InitServer ==
    /\ disk \in InitFiles
    /\ data = loadFromDisk(disk)
    /\ now = Now0
    /\ lastOp = "construct"
    /\ ret = Void
    /\ hist = Unobserved
    /\ lastSaved = loadFromDisk(disk)
    /\ dirty = FALSE
    /\ failures = 0
    /\ NoCalls /\ NoRequest

NextServer ==
    \/ \E m \in Methods, p \in Paths : Receive(m, p)
    \/ loggingMiddleware
    \/ cors
    \/ openAIApiKeyAuth
    \/ routeHandler
    \/ rootOrHealth
    \/ injectEnv
    \/ notFound

SpecServer == InitServer /\ [][NextServer]_vars

-----------------------------------------------------------------------------
(* The steps of each operation; lastOp' is tested first, as it is cheap *)

GetStep(k, t) == lastOp' = "get" /\ get(k, t)
PutStep(k, v, o) == lastOp' = "put" /\ put(k, v, o)
DeleteStep(k) == lastOp' = "delete" /\ delete(k)
ListStep(a) == lastOp' = "list" /\ list(a)
RestartStep == lastOp' = "construct" /\ Restart

-----------------------------------------------------------------------------
(* What the claims speak of, stated apart from the code's own tests *)

\* the expiry timestamp lies in the past at time t
InPast(expiry, t) == expiry # Undefined /\ expiry[1] < t

\* the entries of Map m under key k
EntriesOf(m, k) == {i \in 1..Len(m) : m[i].key = k}

\* the keys of the entries of m that are present and not expired at time t
LiveKeys(m, t) == {m[i].key : i \in {j \in 1..Len(m) : ~InPast(m[j].item.expiry, t)}}

\* what a read of k at time t is to return on Map m: the value of the live
\* entry, null when there is none
Reads(m, k, t) ==
    IF k \in LiveKeys(m, t)
    THEN Text(m[CHOOSE i \in EntriesOf(m, k) : TRUE].item.value)
    ELSE Null

\* string k begins with string p
HasPrefix(k, p) == \E n \in 0..Len(k) : p = [i \in 1..n |-> k[i]]

\* the elements of a sequence
Range(s) == {s[i] : i \in 1..Len(s)}
NoDuplicates(s) == Cardinality(Range(s)) = Len(s)

\* the observer saw a put of the watched key with no TTL option at all
SawPutNoTtl == hist.kind = "put" /\ hist.ttl = Undefined
\* the observer saw a put of the watched key with a TTL of t > 0 seconds
SawPutTtl == hist.kind = "put" /\ hist.ttl # Undefined /\ hist.ttl[1] > 0
Deadline == hist.at[1] + hist.ttl[1] * MsPerSec

-----------------------------------------------------------------------------
(* Claims *)

\* C1: on one instance, a get(k) that follows put(k, v) without TTL, with no
\* other put or delete of k in between, returns exactly v: whatever was done
\* before, however much time has passed, and whether or not the write of the
\* put (or any other write) succeeded.
C1_PutGetRoundTrip ==
    [][\A t \in GetTypes :
          (SawPutNoTtl /\ GetStep(hist.key, t)) => ret' = Text(hist.value)]_vars

\* the put of the only key in the Map never reached the file, time has
\* passed, and the get returned its value
C1_Witness ==
    /\ lastOp = "get" /\ SawPutNoTtl /\ ret = Text(hist.value)
    /\ Len(data) = 1 /\ data[1].key = hist.key
    /\ dirty /\ loadFromDisk(disk) = <<>>
    /\ now > Now0

\* C2: neither get nor list hands out an entry whose expiry timestamp lies in
\* the past at the time of the call, whatever was done before and wherever
\* the entry came from (a put, or the file read at construction).  An entry
\* whose expiry is 0 fails it: the scan's test takes that expiry for none.
C2_NoExpiredRead ==
    [][/\ \A k \in Keys, t \in GetTypes :
            (GetStep(k, t) /\ \E i \in EntriesOf(data, k) : InPast(data[i].item.expiry, now))
                => ret' = Null
       /\ \A a \in ListArgs :
            ListStep(a) => \A i \in 1..Len(data) :
                          InPast(data[i].item.expiry, now) => data[i].key \notin Range(ret'.keys)
      ]_vars

\* C3 as claimed: after put(k, v, {expirationTtl: t}), t > 0, at time T, get(k)
\* at time T returns v and get(k) at any time from T + t seconds on returns
\* null, while k is put no more.
C3_NullOnceTtlElapsed ==
    [][\A t \in GetTypes :
          (SawPutTtl /\ GetStep(hist.key, t)) =>
              /\ now = hist.at[1] => ret' = Text(hist.value)
              /\ now >= Deadline => ret' = Null]_vars

\* C3 amended: get(k) returns v at every time up to and including T + t
\* seconds, and null at any time later than T + t seconds, while k is neither
\* put nor deleted.
C3_NullAfterTtlElapsed ==
    [][\A t \in GetTypes :
          (SawPutTtl /\ GetStep(hist.key, t)) =>
              /\ now <= Deadline => ret' = Text(hist.value)
              /\ now > Deadline => ret' = Null]_vars

\* more than t seconds after the put of the watched key a get returned null,
\* and it was a get of that key: the other key is still there
C3_Witness ==
    /\ lastOp = "get" /\ SawPutTtl /\ now > Deadline /\ ret = Null
    /\ Len(data) = 1 /\ data[1].key # hist.key

C5_Delete ==
    [][/\ \A k \in Keys :
            DeleteStep(k) =>
                /\ ret' = Void
                /\ EntriesOf(data', k) = {}
                /\ \A k2 \in Keys \ {k} :
                      /\ Cardinality(EntriesOf(data', k2)) = Cardinality(EntriesOf(data, k2))
                      /\ {data'[i].item : i \in EntriesOf(data', k2)}
                            = {data[i].item : i \in EntriesOf(data, k2)}
                /\ EntriesOf(data, k) = {} => data' = data
       /\ \A t \in GetTypes :
            (hist.kind = "deleted" /\ GetStep(hist.key, t)) => ret' = Null
      ]_vars

\* the watched key was deleted while present (the file, whose write failed,
\* still has it), the other key stayed, and a get of the watched key
\* returned null
C5_Witness ==
    /\ lastOp = "get" /\ hist.kind = "deleted" /\ ret = Null
    /\ Len(data) = 1 /\ data[1].key # hist.key
    /\ dirty /\ EntriesOf(loadFromDisk(disk), hist.key) # {}

WriteAttempted ==
    \/ dirty' /\ disk' = disk
    \/ ~dirty' /\ loadFromDisk(disk') = data'

\* C7: but for a file that did not parse at construction, the file's content
\* is the whole Map as it was at the latest write that succeeded (or at the
\* load); every put, every delete and every get or list that evicts attempts
\* a write of the whole Map, and a failed write leaves the file as it was.
C7_Snapshot ==
    [][/\ (disk.kind # "corrupt" \/ disk' # disk) => loadFromDisk(disk') = lastSaved'
       /\ lastOp' \in {"put", "delete"} => WriteAttempted
       /\ (lastOp' \in {"get", "list"} /\ data' # data) => WriteAttempted
      ]_vars

\* C8: an operation whose write fails still returns as usual and its change
\* to the Map stays: the entry put is there, the key deleted is gone, the
\* expired entries are evicted; and every get and list answers from the Map,
\* not from the file.
C8_WriteFailure ==
    [][/\ \A k \in Keys, v \in NewValues, o \in PutOptions :
            (dirty' /\ PutStep(k, v, o)) =>
                /\ ret' = Void
                /\ \E i \in EntriesOf(data', k) : data'[i].item.value = v.str
       /\ \A k \in Keys :
            (dirty' /\ DeleteStep(k)) => (ret' = Void /\ EntriesOf(data', k) = {})
       /\ \A k \in Keys, t \in GetTypes :
            GetStep(k, t) =>
                /\ ret' = Reads(data, k, now)
                /\ dirty' => LiveKeys(data', now) = Range(MapKeys(data'))
       /\ \A a \in ListArgs :
            ListStep(a) =>
                /\ ret'.kind = "keys"
                /\ Range(ret'.keys) \subseteq LiveKeys(data, now)
                /\ a.kind = "undefined" => Range(ret'.keys) = LiveKeys(data, now)
                /\ dirty' => LiveKeys(data', now) = Range(MapKeys(data'))
      ]_vars

\* a get returned a value although the file, whose latest write failed,
\* holds no entry at all
C8_Witness ==
    /\ lastOp = "get" /\ ret.kind = "text" /\ dirty
    /\ disk.kind = "object" /\ loadFromDisk(disk) = <<>>

\* the file is absent or does not parse
BadFile == disk.kind \in {"absent", "corrupt"}

\* C9: a store constructed on an absent file or on one that is not valid JSON
\* has an empty Map: get returns null for every key and list returns no key;
\* and it takes a put, whose entry a get then returns, and a delete.
C9_BadFileConstruct ==
    /\ []((lastOp = "construct" /\ BadFile) =>
            /\ data = <<>>
            /\ \A k \in Keys, t \in GetTypes :
                  getReturn(cleanupExpired(data, now).data, k, t) = Null
            /\ \A a \in ListArgs :
                  listReturn(cleanupExpired(data, now).data, a).keys = <<>>)
    /\ [][/\ \A k \in Keys, v \in NewValues, o \in PutOptions :
                (lastOp = "construct" /\ BadFile /\ PutStep(k, v, o)) =>
                    /\ ret' = Void
                    /\ \A t \in GetTypes :
                          (optionsTtl(o) = Undefined \/ optionsTtl(o)[1] >= 0) =>
                              getReturn(cleanupExpired(data', now).data, k, t) = Text(v.str)
          /\ \A k \in Keys :
                (lastOp = "construct" /\ BadFile /\ DeleteStep(k)) => (ret' = Void /\ data' = <<>>)
         ]_vars

\* a store constructed on a file that does not parse took a put, whose write
\* failed: the file is as it was
C9_Witness ==
    /\ lastOp = "put" /\ disk.kind = "corrupt" /\ dirty /\ Len(data) = 1

\* the prefix a caller of the KVNamespace interface asks for
WantedPrefix(a) ==
    CASE a.kind = "undefined" -> Undefined
      [] a.kind = "string" -> Some(a.str)
      [] a.kind = "object" -> a.prefix

\* C10: through the KVNamespace interface list takes an options object:
\* list({prefix: p}) returns exactly the live keys that begin with p, and
\* list() and list({}) return all live keys.
C10_ListOptionsObject ==
    [][\A a \in ListArgs :
          ListStep(a) =>
              Range(ret'.keys) =
                  {k \in LiveKeys(data, now) :
                      WantedPrefix(a) = Undefined \/ HasPrefix(k, WantedPrefix(a)[1])}
      ]_vars

\* strings that are no JSON text
NotJson == {V1, <<>>, <<65>>, <<233>>, <<ReplacementChar>>}
\* strings that are a JSON text of a value other than null
IsJson == {<<49>>, <<91, 93>>, <<123, 34, 97, 34, 58, 49, 125>>}
\* the JSON text of null
JsonNull == <<110, 117, 108, 108>>

C12_ArrayBufferRoundTrip ==
    [][\A k \in FormatKeys, v \in FormatValues :
          (v.kind = "arrayBuffer" /\ PutStep(k, v, [kind |-> "undefined"])) =>
              getReturn(cleanupExpired(data', now).data, k, "arrayBuffer") = Buffer(v.bytes)
      ]_vars

\* the entries of Map m whose expiry lies in the past at time t
Expired(m, t) == {i \in 1..Len(m) : InPast(m[i].item.expiry, t)}

\* time t and the times that follow it second by second, beyond the model's
From(t) == {t + i * TickMs : i \in 0..(MaxTicks + 1)}

\* the TTL of the options of a put, if it has one
TtlOf(o) == IF o.kind = "object" /\ o.expirationTtl # Undefined THEN o.expirationTtl[1] ELSE 0
HasTtl(o) == o.kind = "object" /\ o.expirationTtl # Undefined

\* the entry put(k, v, o) leaves in the Map
ItemPut(k) == data'[CHOOSE i \in EntriesOf(data', k) : TRUE].item

\* C13 as claimed: put sets the expiry now + ttl * 1000 if and only if a TTL
\* greater than zero is given; with the TTL omitted, zero or negative the entry
\* has no expiry and is never evicted.
C13_ExpiryIffPositive ==
    [][\A k \in TtlKeys, v \in Values, o \in PutOptions :
          PutStep(k, v, o) =>
              /\ (HasTtl(o) /\ TtlOf(o) > 0) =>
                    ItemPut(k).expiry = Some(now + TtlOf(o) * MsPerSec)
              /\ ~(HasTtl(o) /\ TtlOf(o) > 0) =>
                    /\ ItemPut(k).expiry = Undefined
                    /\ \A u \in From(now) : MapHas(cleanupExpired(data', u).data, k)
      ]_vars

\* C13 amended: put sets the expiry now + ttl * 1000 if and only if a TTL other
\* than zero is given; with the TTL omitted or zero the entry has no expiry and
\* is never evicted; with a negative TTL the expiry lies in the past and the
\* scan of the next get or list evicts the entry.
C13_ExpiryIffNonZero ==
    [][\A k \in TtlKeys, v \in Values, o \in PutOptions :
          PutStep(k, v, o) =>
              /\ (HasTtl(o) /\ TtlOf(o) # 0) =>
                    ItemPut(k).expiry = Some(now + TtlOf(o) * MsPerSec)
              /\ ~(HasTtl(o) /\ TtlOf(o) # 0) =>
                    /\ ItemPut(k).expiry = Undefined
                    /\ \A u \in From(now) : MapHas(cleanupExpired(data', u).data, k)
              /\ (HasTtl(o) /\ TtlOf(o) < 0) =>
                    \A u \in From(now) : ~MapHas(cleanupExpired(data', u).data, k)
      ]_vars

\* a put with a negative TTL has just stored an entry that is expired already
C13_Witness ==
    /\ lastOp = "put" /\ now = Now0
    /\ \E i \in EntriesOf(data, KeyA) : data[i].item.expiry = Some(Now0 - MsPerSec)

\* C14 as claimed: any get, list, put or delete removes from the Map the
\* entries whose expiry has passed, and no file written by them holds one.
C14_EvictedOnAccess ==
    [][lastOp' \in {"get", "list", "put", "delete"} =>
          \A i \in Expired(data, now) :
              /\ data[i] \notin Range(data')
              /\ disk' # disk => data[i] \notin Range(loadFromDisk(disk'))
      ]_vars

\* the entries of Map m whose expiry is a timestamp other than 0 that lies in
\* the past at time t
ExpiredSinceEpoch(m, t) == {i \in Expired(m, t) : m[i].item.expiry # Some(0)}

\* C14 amended: after any get or list the Map holds no entry whose expiry,
\* other than 0, has passed, and no file written by a get or list does; an
\* entry whose expiry is 0 stays in the Map through every get and list; a put
\* or delete evicts nothing: a put removes no key and changes the entry of at
\* most one, a delete leaves the entries of the other keys, expired or not,
\* and both write them to the file with the rest.
C14_EvictedOnRead ==
    [][/\ lastOp' \in {"get", "list"} =>
             /\ ExpiredSinceEpoch(data', now) = {}
             /\ disk' # disk => ExpiredSinceEpoch(loadFromDisk(disk'), now) = {}
             /\ \A i \in 1..Len(data) :
                    data[i].item.expiry = Some(0) => data[i] \in Range(data')
       /\ lastOp' = "put" =>
             /\ Range(MapKeys(data)) \subseteq Range(MapKeys(data'))
             /\ Cardinality({i \in 1..Len(data) : data[i] \notin Range(data')}) <= 1
             /\ ~dirty' => loadFromDisk(disk') = data'
       /\ \A k \in Keys :
             DeleteStep(k) =>
                 /\ \A i \in 1..Len(data) : data[i].key # k => data[i] \in Range(data')
                 /\ ~dirty' => loadFromDisk(disk') = data'
      ]_vars

\* time has passed, and a put has written a file that holds an entry whose
\* expiry has passed
C14_Witness ==
    /\ lastOp = "put" /\ ~dirty /\ now > Now0
    /\ \E i \in Expired(data, now) : data[i].item.expiry[1] >= Now0
    /\ loadFromDisk(disk) = data

\* C15: the scan of get and list removes every entry whose expiry has passed
\* and no other, and the Map is written exactly when an entry was removed: a
\* get or list that finds no such entry leaves the Map and the file as they
\* are.  An entry whose expiry is 0 fails the first part: the scan keeps it.
C15_EvictionFrame ==
    [][lastOp' \in {"get", "list"} =>
          /\ data' = SelectSeq(data, LAMBDA e : ~InPast(e.item.expiry, now))
          /\ Expired(data, now) = {} =>
                UNCHANGED <<data, disk, dirty, lastSaved>>
          /\ Expired(data, now) # {} =>
                \/ dirty' /\ (disk' = disk \/ disk'.kind = "corrupt") /\ lastSaved' = lastSaved
                \/ ~dirty' /\ disk' = JsonStringify(data') /\ lastSaved' = data'
      ]_vars

\* C16: after put(k, v2, opts2) the Map holds exactly one entry of k, with
\* value v2 and the expiry that opts2 gives, whatever entry of k there was; a
\* put without TTL over an entry that had one leaves an entry that no later
\* scan evicts.
C16_LastPutWins ==
    [][\A k \in TtlKeys, v \in Values, o \in PutOptions :
          PutStep(k, v, o) =>
              /\ Cardinality(EntriesOf(data', k)) = 1
              /\ ItemPut(k).value = v.str
              /\ ItemPut(k).expiry =
                    IF HasTtl(o) /\ TtlOf(o) # 0 THEN Some(now + TtlOf(o) * MsPerSec)
                    ELSE Undefined
              /\ (~HasTtl(o) /\ \E i \in EntriesOf(data, k) : data[i].item.expiry # Undefined) =>
                    \A u \in From(now) :
                        getReturn(cleanupExpired(data', u).data, k, "text") = Text(v.str)
      ]_vars

\* a put without TTL has replaced the entry that the file, whose write
\* failed, still holds with its expiry, which has passed
C16_Witness ==
    /\ lastOp = "put" /\ dirty /\ now > Now0
    /\ \E i \in EntriesOf(data, KeyA) : data[i].item = [value |-> V2, expiry |-> Undefined]
    /\ \E i \in Expired(loadFromDisk(disk), now) :
          loadFromDisk(disk)[i].key = KeyA /\ loadFromDisk(disk)[i].item.value = V1

\* the step is one of the operation of call c, run on its own
Alone(c) ==
    CASE c.op = "get" -> get(c.key, c.type)
      [] c.op = "put" -> put(c.key, c.value, c.options)
      [] c.op = "delete" -> delete(c.key)
      [] c.op = "list" -> list(c.arg)

\* C17: of the calls issued in one turn without awaiting, each runs its whole
\* body (eviction, change of the Map, write) in one piece, and they run in the
\* order they were issued: every step is the step of one call, taken when all
\* calls before it have returned, and equal to that operation run on its own,
\* whose result the call returns.
C17_CallsAtomic ==
    [][\A i \in 1..Len(calls) :
          calls'[i] # calls[i] =>
              /\ \A j \in 1..Len(calls) :
                    /\ j < i => Finished(calls[j])
                    /\ j > i => calls[j].pc = 0
                    /\ j # i => calls'[j] = calls[j]
              /\ calls[i].pc = 0 /\ Finished(calls'[i])
              /\ Alone(calls[i].call)
              /\ calls'[i].result = ret'
      ]_vars

\* three calls issued at once have returned: the get returned the old value,
\* the get issued after the put the new one
C17_Witness ==
    /\ Len(calls) = 3 /\ \A i \in 1..3 : Finished(calls[i])
    /\ calls[1].call.op = "get" /\ calls[1].result = Text(V1)
    /\ calls[2].call.op = "put" /\ calls[2].call.key = KeyA /\ calls[2].call.write = "refused"
    /\ calls[3].call.op = "get" /\ calls[3].result = Text(V2)
    /\ dirty /\ Len(data) = 1

\* the handlers that have run for the request in hand
HaveRun == {ran[i].name : i \in 1..Len(ran)}
\* the authentication of /v1 and the handlers of the /v1 routes
Guarded == {"openAIApiKeyAuth"} \cup RouteNames

\* C18: when the authentication of /v1 or a handler of a /v1 route runs, the
\* context holds the environment of loadNodeEnv.
C18_EnvBeforeAuth ==
    \A i \in 1..Len(ran) : ran[i].name \in Guarded => ran[i].env = "loadNodeEnv"

\* C19: an OPTIONS request, whatever its path, is answered by the CORS
\* middleware with status 204 and the three CORS headers, and neither the
\* authentication nor a route handler runs for it; for any other request the
\* three headers are set when the authentication or a route handler runs.
C19_CorsFirst ==
    /\ req.method = "OPTIONS" =>
          /\ HaveRun \subseteq {"loggingMiddleware", "cors"}
          /\ "cors" \in HaveRun =>
                ctx.finalized /\ ctx.status = 204 /\ CorsHeaders \subseteq ctx.headers
          /\ ctx.finalized => "cors" \in HaveRun
    /\ \A i \in 1..Len(ran) :
          ran[i].name \in Guarded \cup {"root", "health"} => ran[i].cors

\* the preflight of a /v1 route has been answered
C19_Witness ==
    /\ req = [method |-> "OPTIONS", path |-> <<"v1", "chat", "completions">>]
    /\ ctx.finalized /\ ctx.status = 204 /\ CorsHeaders \subseteq ctx.headers
    /\ HaveRun = {"loggingMiddleware", "cors"}

====
